---- MODULE Spec2Model ----
(***************************************************************************)
(* The tankerkoenig integration of homeassistant-core:                     *)
(*   src/homeassistant/components/tankerkoenig/__init__.py                 *)
(* async_setup_entry, async_unload_entry and the                           *)
(* TankerkoenigDataUpdateCoordinator (setup, add_station,                  *)
(* _async_update_data).                                                    *)
(*                                                                         *)
(* Station ids are the naturals 1, 2, ... (the code's strings).  A station *)
(* record returned by getStationData carries its id and the number of the  *)
(* getStationData call that produced it; a price record returned by        *)
(* getPriceList is the number of the refresh cycle that asked for it.      *)
(* The provider answers a getPriceList call for the ids it was asked for   *)
(* (all of them, or all but the first one).                                *)
(*                                                                         *)
(* The base class DataUpdateCoordinator (homeassistant/helpers/            *)
(* update_coordinator.py) is not among the source files: what it does with *)
(* the value _async_update_data returns or the UpdateFailed it raises, the *)
(* first refresh and the timer are modelled from the specification         *)
(* (Publish, MayStartRefresh, FirstRefreshFailed, Tick).                   *)
(***************************************************************************)
EXTENDS Integers, Sequences, FiniteSets, TLC

VARIABLES
    selected_stations,  \* entry.data[CONF_STATIONS]: the configured ids, in order
    pc,                 \* where async_setup_entry / the config entry stands
    hass_data,          \* hass.data[DOMAIN] holds the coordinator under entry.unique_id
    setup_ret,          \* what coordinator.setup did: pending, true, false, raised
    station_calls,      \* the ids getStationData was called with, in call order
    station_resps,      \* the kind of answer each of those calls got
    stations,           \* self.stations: an insertion-ordered dict id -> station
    cap_warned,         \* the "more than 10 stations" warning was logged
    dup_warned,         \* number of "already created" warnings logged
    data,               \* coordinator.data: the live snapshot
    tasks,              \* the _async_update_data calls in flight, by cycle number
    ncycles,            \* refresh cycles begun so far
    last_cycle,         \* what the most recently finished cycle did
    call_log,           \* the cycle number of every getPriceList call, in call order
    platforms,          \* async_setup_platforms was called for the entry
    unload_ret,         \* what the last async_unload_entry returned
    versions,           \* pi_hole: api.versions, the payload the Hole client holds
    reads               \* pi_hole: the property reads made since versions last changed

pi_vars == <<versions, reads>>

vars == <<selected_stations, pc, hass_data, setup_ret, station_calls,
          station_resps, stations, cap_warned, dup_warned, data, tasks,
          ncycles, last_cycle, call_log, platforms, unload_ret, versions,
          reads>>

(***************************************************************************)
(* Bounds of the model.                                                    *)
(***************************************************************************)
\* longest run 1..k of distinct configured ids
MaxStations == 23
\* longest configured list drawn freely over DupIds
MaxDupLen == 3
\* refresh cycles per run, the first refresh included
MaxCycles == 3
\* pi_hole: property reads kept between two changes of api.versions
MaxReads == 2

(***************************************************************************)
(* Program constants.                                                      *)
(***************************************************************************)
\* getPriceList is asked for at most 10 ids per call
ChunkSize == 10
\* setup warns above 10 stations
StationLimit == 10

(***************************************************************************)
(* Python values: dicts, lists, slices.                                    *)
(***************************************************************************)
EmptyMap == <<>>

Range(s) == {s[i] : i \in 1..Len(s)}

Min(a, b) == IF a <= b THEN a ELSE b

Iota(k) == [i \in 1..k |-> i]

SeqsUpTo(S, n) == UNION {[1..m -> S] : m \in 0..n}

\* d[k] = v on a dict
MapPut(m, k, v) == [x \in DOMAIN m \cup {k} |-> IF x = k THEN v ELSE m[x]]

\* s[a:b] on a list, a and b counted from 0, cut at the list's end
Slice(s, a, b) == SubSeq(s, a + 1, Min(b, Len(s)))

\* math.ceil(n / d)
Ceil(n, d) == IF n % d = 0 THEN n \div d ELSE (n \div d) + 1

(***************************************************************************)
(* The configured lists the runs start from: every list over DupIds of up  *)
(* to MaxDupLen ids (duplicates in every order), and every run 1..k up to  *)
(* MaxStations, alone or followed by a second occurrence of id 1.          *)
(***************************************************************************)
DupIds == {1, 2}

Configs ==
    SeqsUpTo(DupIds, MaxDupLen)
    \cup {Iota(k) : k \in 0..MaxStations}
    \cup {Append(Iota(k), 1) : k \in 1..MaxStations}

NoData == [valid |-> FALSE, map |-> EmptyMap]

NoCycle ==
    [id |-> 0, outcome |-> "none", message |-> "", first |-> FALSE,
     station_ids |-> <<>>, calls |-> <<>>, answers |-> <<>>, got |-> <<>>,
     before |-> NoData]

(***************************************************************************)
(* pi_hole: api.versions before the client has fetched anything is no      *)
(* mapping.                                                                *)
(***************************************************************************)
NoVersions == [is_dict |-> FALSE, map |-> EmptyMap]

(***************************************************************************)
(* TankerkoenigDataUpdateCoordinator.__init__                              *)
(***************************************************************************)
NoStations == [order |-> <<>>, rec |-> EmptyMap]

Init ==
    /\ selected_stations \in Configs
    /\ pc = "start"
    /\ hass_data = FALSE
    /\ setup_ret = "pending"
    /\ station_calls = <<>>
    /\ station_resps = <<>>
    /\ stations = NoStations
    /\ cap_warned = FALSE
    /\ dup_warned = 0
    /\ data = NoData
    /\ tasks = EmptyMap
    /\ ncycles = 0
    /\ last_cycle = NoCycle
    /\ call_log = <<>>
    /\ platforms = FALSE
    /\ unload_ret = "none"
    /\ versions = NoVersions
    /\ reads = <<>>

(***************************************************************************)
(* add_station                                                             *)
(***************************************************************************)
\* faulty variant: a duplicate overwrites the stored record
add_station_overwrite(st, station) ==
    IF station.id \in DOMAIN st.rec
    THEN [order |-> st.order, rec |-> MapPut(st.rec, station.id, station)]
    ELSE [order |-> Append(st.order, station.id),
          rec |-> MapPut(st.rec, station.id, station)]

\* faulty variant: no test for a known id
add_station_always(st, station) ==
    [order |-> Append(st.order, station.id),
     rec |-> MapPut(st.rec, station.id, station)]

add_station(st, station) ==
    IF station.id \in DOMAIN st.rec
    THEN st
    ELSE [order |-> Append(st.order, station.id),
          rec |-> MapPut(st.rec, station.id, station)]

(***************************************************************************)
(* async_setup_entry, up to the executor job that runs coordinator.setup   *)
(***************************************************************************)
SetupEntryBegin ==
    /\ pc = "start"
    /\ hass_data' = TRUE
    /\ pc' = "setup"
    /\ UNCHANGED <<selected_stations, setup_ret, station_calls, station_resps,
                   stations, cap_warned, dup_warned, data, tasks, ncycles,
                   last_cycle, call_log, platforms, unload_ret>>
    /\ UNCHANGED pi_vars

(***************************************************************************)
(* setup: one pass of the loop over self._selected_stations.               *)
(* getStationData answers ok, answers ok=False, raises customException     *)
(* (turned into ok=False by the except clause) or raises a                 *)
(* RequestException, which leaves setup.                                   *)
(***************************************************************************)
StationAnswers == {"ok", "not_ok", "custom_exception", "request_exception"}

StationData(kind, station_id, n) ==
    [ok |-> kind = "ok",
     raised |-> kind = "request_exception",
     station |-> [id |-> station_id, call |-> n]]

\* faulty variant: a failed id is skipped and the loop goes on
setup_on_failure_continue == "continue"

\* if not station_data["ok"]: ... return False
setup_on_failure == "return_false"

\* faulty variant: the stations added so far are dropped on failure
stations_on_failure_cleared(st) == NoStations

\* return False leaves self.stations as the loop filled it
stations_on_failure(st) == st

SetupPos == Len(station_calls) + 1

SetupCall(kind) ==
    /\ pc = "setup"
    /\ setup_ret = "pending"
    /\ SetupPos <= Len(selected_stations)
    /\ LET station_id == selected_stations[SetupPos]
           station_data == StationData(kind, station_id, SetupPos)
           added == add_station(stations, station_data.station)
       IN /\ station_calls' = Append(station_calls, station_id)
          /\ station_resps' = Append(station_resps, kind)
          /\ IF station_data.raised
             THEN /\ setup_ret' = "raised"
                  /\ UNCHANGED <<stations, dup_warned>>
             ELSE IF ~station_data.ok
             THEN /\ setup_ret' =
                        IF setup_on_failure = "return_false"
                        THEN "false" ELSE "pending"
                  /\ stations' = stations_on_failure(stations)
                  /\ UNCHANGED dup_warned
             ELSE /\ stations' = added
                  /\ dup_warned' =
                        IF station_id \in DOMAIN stations.rec
                        THEN dup_warned + 1 ELSE dup_warned
                  /\ UNCHANGED setup_ret
    /\ UNCHANGED <<selected_stations, pc, hass_data, cap_warned, data, tasks,
                   ncycles, last_cycle, call_log, platforms, unload_ret>>
    /\ UNCHANGED pi_vars

(***************************************************************************)
(* setup: after the loop                                                   *)
(***************************************************************************)
\* faulty variant: warns at the limit already
over_capacity_at_limit(n) == n >= StationLimit

\* len(self.stations) > 10
over_capacity(n) == n > StationLimit

SetupFinish ==
    /\ pc = "setup"
    /\ setup_ret = "pending"
    /\ SetupPos > Len(selected_stations)
    /\ cap_warned' = over_capacity(Len(stations.order))
    /\ setup_ret' = "true"
    /\ UNCHANGED <<selected_stations, pc, hass_data, station_calls,
                   station_resps, stations, dup_warned, data, tasks, ncycles,
                   last_cycle, call_log, platforms, unload_ret>>
    /\ UNCHANGED pi_vars

(***************************************************************************)
(* _async_update_data: the pieces of one refresh cycle                     *)
(***************************************************************************)
\* range(ceil(len(station_ids) / 10))
chunk_count(n) == Ceil(n, ChunkSize)

\* faulty variant: the slice ends one id early
chunk_short(station_ids, index) ==
    Slice(station_ids, index * ChunkSize, (index + 1) * ChunkSize - 1)

\* station_ids[index * 10 : (index + 1) * 10]
chunk(station_ids, index) ==
    Slice(station_ids, index * ChunkSize, (index + 1) * ChunkSize)

\* faulty variant: the cycle starts from the live snapshot's records
initial_prices_seeded(live) == live.map

\* prices = {}
initial_prices(live) == EmptyMap

\* faulty variant: a chunk's prices replace those merged so far
update_replace(prices, d) == d

\* prices.update(data["prices"])
update(prices, d) ==
    [x \in DOMAIN prices \cup DOMAIN d |->
        IF x \in DOMAIN d THEN d[x] ELSE prices[x]]

\* faulty variant: the loop is left and the prices merged so far returned
update_failed_partial(prices, message) ==
    [kind |-> "return", message |-> message, value |-> prices]

\* raise UpdateFailed(message)
update_failed(prices, message) ==
    [kind |-> "raise", message |-> message, value |-> EmptyMap]

\* faulty variant: an envelope without "prices" is taken as an empty answer
missing_prices_ignored(d) == FALSE

\* "prices" not in data
missing_prices(d) == ~d.has_prices

\* faulty variant: stations the provider returned no prices for are dropped
stations_after_answer_pruned(st, ids, d) ==
    IF d.ok /\ d.has_prices
    THEN LET gone == Range(ids) \ DOMAIN d.prices
             keep == {i \in 1..Len(st.order) : st.order[i] \notin gone}
             F[i \in 0..Len(st.order)] ==
                 IF i = 0 THEN <<>>
                 ELSE IF i \in keep THEN Append(F[i - 1], st.order[i])
                 ELSE F[i - 1]
         IN [order |-> F[Len(st.order)],
             rec |-> [x \in DOMAIN st.rec \ gone |-> st.rec[x]]]
    ELSE st

\* self.stations is read once, by list(self.stations), and never assigned
stations_after_answer(st, ids, d) == st

\* return prices
returned(prices) == [kind |-> "return", message |-> "", value |-> prices]

(***************************************************************************)
(* pytankerkoenig.getPriceList: an error envelope, a success envelope      *)
(* without "prices", prices for every id asked for, or prices for all but  *)
(* the first id asked for.  Cycle c's prices are the value c.              *)
(***************************************************************************)
PriceAnswers == {"error", "no_prices", "full", "partial"}

PriceList(kind, ids, c) ==
    [ok |-> kind # "error",
     has_prices |-> kind \in {"full", "partial"},
     message |-> "api error",
     prices |->
        IF kind = "full" THEN [x \in Range(ids) |-> c]
        ELSE IF kind = "partial" THEN [x \in Range(Tail(ids)) |-> c]
        ELSE EmptyMap]

(***************************************************************************)
(* DataUpdateCoordinator (base class)                                      *)
(***************************************************************************)
\* a returned mapping becomes coordinator.data; UpdateFailed leaves it alone
Publish(live, result) ==
    IF result.kind = "return"
    THEN [valid |-> TRUE, map |-> result.value]
    ELSE live

\* faulty variant: the timer starts a refresh whatever is in flight
MayStartRefreshAlways == TRUE

\* faulty variant: the timer is not set again after a failed cycle
MayStartRefreshUnlessFailed ==
    DOMAIN tasks = {} /\ last_cycle.outcome # "failed"

\* single-flight scheduling: the timer starts no refresh while one is in flight
MayStartRefresh == DOMAIN tasks = {}

\* async_config_entry_first_refresh: a failed first refresh leaves the entry
\* not ready
FirstRefreshFailed(result) == result.kind # "return"

(***************************************************************************)
(* The end of a cycle: the base class takes the result, and when the cycle *)
(* is the first refresh, async_setup_entry goes on behind its await (add   *)
(* the update listener, set the platforms up, return True).                *)
(***************************************************************************)
Finish(c, t, result) ==
    /\ data' = Publish(data, result)
    /\ last_cycle' =
          [id |-> c,
           outcome |-> IF result.kind = "return" THEN "ok" ELSE "failed",
           message |-> result.message,
           first |-> t.first,
           station_ids |-> t.station_ids,
           calls |-> t.calls,
           answers |-> t.answers,
           got |-> t.got,
           before |-> t.before]
    /\ tasks' = [x \in DOMAIN tasks \ {c} |-> tasks[x]]
    /\ IF ~t.first
       THEN UNCHANGED <<pc, platforms>>
       ELSE IF FirstRefreshFailed(result)
       THEN pc' = "not_ready" /\ UNCHANGED platforms
       ELSE pc' = "loaded" /\ platforms' = TRUE

(***************************************************************************)
(* _async_update_data, from its start to its first await                   *)
(***************************************************************************)
Begin(first) ==
    LET c == ncycles + 1
        station_ids == stations.order
        prices == initial_prices(data)
        t == [station_ids |-> station_ids, prices |-> prices, index |-> 0,
              first |-> first, calls |-> <<>>, answers |-> <<>>, got |-> <<>>,
              before |-> data]
    IN /\ ncycles' = c
       /\ IF chunk_count(Len(station_ids)) > 0
          THEN /\ tasks' =
                    MapPut(tasks, c,
                           [t EXCEPT !.calls = <<chunk(station_ids, 0)>>])
               /\ call_log' = Append(call_log, c)
               /\ pc' = IF first THEN "first_refresh" ELSE pc
               /\ UNCHANGED <<data, last_cycle, platforms>>
          ELSE /\ Finish(c, t, returned(prices))
               /\ UNCHANGED call_log

(***************************************************************************)
(* _async_update_data, from the answer to a getPriceList call to the next  *)
(* await or to the end                                                     *)
(***************************************************************************)
ChunkReturn(c, kind) ==
    /\ c \in DOMAIN tasks
    /\ LET t == [tasks[c] EXCEPT !.answers = Append(@, kind)]
           d == PriceList(kind, chunk(t.station_ids, t.index), c)
       IN IF ~d.ok
          THEN /\ Finish(c, t, update_failed(t.prices, d.message))
               /\ UNCHANGED call_log
          ELSE IF missing_prices(d)
          THEN /\ Finish(c, t, update_failed(t.prices, "No prices in data"))
               /\ UNCHANGED call_log
          ELSE LET prices == update(t.prices, d.prices)
                   index == t.index + 1
                   t2 == [t EXCEPT !.prices = prices, !.index = index,
                                   !.got = Append(@, d.prices)]
               IN IF index < chunk_count(Len(t.station_ids))
                  THEN /\ tasks' =
                            [tasks EXCEPT ![c] =
                                [t2 EXCEPT !.calls =
                                    Append(@, chunk(t.station_ids, index))]]
                       /\ call_log' = Append(call_log, c)
                       /\ UNCHANGED <<data, last_cycle, pc, platforms>>
                  ELSE /\ Finish(c, t2, returned(prices))
                       /\ UNCHANGED call_log
    /\ stations' =
          stations_after_answer(
              stations,
              chunk(tasks[c].station_ids, tasks[c].index),
              PriceList(kind, chunk(tasks[c].station_ids, tasks[c].index), c))
    /\ UNCHANGED <<selected_stations, hass_data, setup_ret, station_calls,
                   station_resps, cap_warned, dup_warned, ncycles,
                   unload_ret>>
    /\ UNCHANGED pi_vars

(***************************************************************************)
(* async_setup_entry, behind the executor job: ConfigEntryNotReady on a    *)
(* RequestException, return False when setup returned False, else the      *)
(* first refresh                                                           *)
(***************************************************************************)
\* faulty variant: setup's return value is not looked at
entry_after_setup_unchecked(ret) ==
    IF ret = "raised" THEN "not_ready" ELSE "first_refresh"

entry_after_setup(ret) ==
    IF ret = "raised" THEN "not_ready"
    ELSE IF ret = "false" THEN "return_false"
    ELSE "first_refresh"

SetupEntryResume ==
    /\ pc = "setup"
    /\ setup_ret # "pending"
    /\ LET next == entry_after_setup(setup_ret)
       IN IF next = "not_ready"
          THEN /\ pc' = "not_ready"
               /\ UNCHANGED <<data, tasks, ncycles, last_cycle, call_log,
                              platforms>>
          ELSE IF next = "return_false"
          THEN /\ pc' = "failed"
               /\ UNCHANGED <<data, tasks, ncycles, last_cycle, call_log,
                              platforms>>
          ELSE Begin(TRUE)
    /\ UNCHANGED <<selected_stations, hass_data, setup_ret, station_calls,
                   station_resps, stations, cap_warned, dup_warned,
                   unload_ret>>
    /\ UNCHANGED pi_vars

(***************************************************************************)
(* The update interval elapses (base class timer)                          *)
(***************************************************************************)
Tick ==
    /\ pc = "loaded"
    /\ ncycles < MaxCycles
    /\ MayStartRefresh
    /\ Begin(FALSE)
    /\ UNCHANGED <<selected_stations, hass_data, setup_ret, station_calls,
                   station_resps, stations, cap_warned, dup_warned,
                   unload_ret>>
    /\ UNCHANGED pi_vars

(***************************************************************************)
(* async_unload_entry                                                      *)
(***************************************************************************)
\* faulty variant: the coordinator is removed whatever the platforms did
unload_pops_always(unload_ok) == TRUE

\* if unload_ok: hass.data[DOMAIN].pop(entry.unique_id)
unload_pops(unload_ok) == unload_ok

Unload(unload_ok) ==
    /\ pc = "loaded"
    /\ unload_ret' = IF unload_ok THEN "true" ELSE "false"
    /\ hass_data' = IF unload_pops(unload_ok) THEN FALSE ELSE hass_data
    /\ pc' = IF unload_ok THEN "unloaded" ELSE pc
    /\ UNCHANGED <<selected_stations, setup_ret, station_calls, station_resps,
                   stations, cap_warned, dup_warned, data, tasks, ncycles,
                   last_cycle, call_log, platforms>>
    /\ UNCHANGED pi_vars

Next ==
    \/ SetupEntryBegin
    \/ \E kind \in StationAnswers : SetupCall(kind)
    \/ SetupFinish
    \/ SetupEntryResume
    \/ Tick
    \/ \E c \in 1..MaxCycles, kind \in PriceAnswers : ChunkReturn(c, kind)
    \/ \E unload_ok \in BOOLEAN : Unload(unload_ok)

Spec == Init /\ [][Next]_vars

(***************************************************************************)
(* Notions the properties below are stated in.                             *)
(***************************************************************************)
RECURSIVE Concat(_)
Concat(ss) == IF ss = <<>> THEN <<>> ELSE Head(ss) \o Concat(Tail(ss))

\* the union of the id -> fields mappings of a sequence of answers
UnionOf(maps) ==
    [x \in UNION {DOMAIN maps[i] : i \in 1..Len(maps)} |->
        maps[CHOOSE i \in 1..Len(maps) : x \in DOMAIN maps[i]][x]]

FailedAnswers == {"error", "no_prices"}

\* the most recently finished cycle ended on a failed chunk
LastCycleChunkFailed ==
    /\ last_cycle.answers # <<>>
    /\ last_cycle.answers[Len(last_cycle.answers)] \in FailedAnswers

\* the most recently finished cycle saw no chunk fail
LastCycleNoChunkFailed ==
    /\ last_cycle.id > 0
    /\ \A i \in 1..Len(last_cycle.answers) :
          last_cycle.answers[i] \notin FailedAnswers

(***************************************************************************)
(* C1. Fail-fast atomicity and stale reads: when chunk k of a cycle fails  *)
(* (ok=false, or ok=true without prices), the live snapshot after the      *)
(* cycle is the live snapshot the cycle started from, and holds no record  *)
(* the failed cycle fetched in its chunks 1..k-1.                          *)
(***************************************************************************)
C1_FailFastAtomicity ==
    LastCycleChunkFailed =>
        /\ data = last_cycle.before
        /\ \A x \in DOMAIN data.map : data.map[x] # last_cycle.id

\* a cycle failed at its second or third chunk after an earlier cycle had
\* published a snapshot
C1_Witness ==
    /\ LastCycleChunkFailed
    /\ Len(last_cycle.answers) >= 2
    /\ last_cycle.before.valid
    /\ last_cycle.before.map # EmptyMap
    /\ ~last_cycle.first

(***************************************************************************)
(* C2. Chunking: a cycle in which no chunk fails issues ceil(N/10)         *)
(* getPriceList calls for a registry of N ids, each for 1 to 10 ids, and   *)
(* the calls' id lists, in call order, concatenate to the registry's ids   *)
(* in insertion order.                                                     *)
(***************************************************************************)
C2_ChunkingCorrect ==
    LastCycleNoChunkFailed =>
        LET N == Len(stations.order)
            m == Len(last_cycle.calls)
        IN /\ (m - 1) * 10 < N
           /\ N <= m * 10
           /\ \A i \in 1..m : Len(last_cycle.calls[i]) \in 1..10
           /\ Concat(last_cycle.calls) = stations.order

\* 23 stations fetched in calls of 10, 10 and 3 ids
C2_Witness ==
    /\ LastCycleNoChunkFailed
    /\ Len(stations.order) = 23
    /\ Len(last_cycle.calls) = 3
    /\ Len(last_cycle.calls[1]) = 10
    /\ Len(last_cycle.calls[2]) = 10
    /\ Len(last_cycle.calls[3]) = 3

(***************************************************************************)
(* C3. Snapshot consistency: at every point of a run the live snapshot is  *)
(* wholly the snapshot some cycle started from or wholly the one it        *)
(* produced; while a cycle is in flight it is the one the cycle started    *)
(* from; all its records come from one cycle.                              *)
(***************************************************************************)
C3_SnapshotConsistent ==
    /\ \E c \in 0..ncycles : \A x \in DOMAIN data.map : data.map[x] = c
    /\ \A c \in DOMAIN tasks : data = tasks[c].before
    /\ last_cycle.id > 0 =>
          \/ data = last_cycle.before
          \/ data = [valid |-> TRUE, map |-> UnionOf(last_cycle.got)]

\* a second successful cycle is under way, one chunk merged locally, while
\* the live snapshot still is the first cycle's
C3_Witness ==
    /\ \E c \in DOMAIN tasks :
          /\ tasks[c].prices # EmptyMap
          /\ tasks[c].before.valid
          /\ tasks[c].before.map # EmptyMap
          /\ DOMAIN tasks[c].prices # DOMAIN tasks[c].before.map
    /\ data.valid

(***************************************************************************)
(* C4. Single flight: never are two refresh cycles of the coordinator in   *)
(* flight at once, and the getPriceList calls of two cycles do not         *)
(* interleave.                                                             *)
(***************************************************************************)
C4_SingleFlight ==
    /\ Cardinality(DOMAIN tasks) <= 1
    /\ \A i, j, k \in 1..Len(call_log) :
          (i < j /\ j < k /\ call_log[i] = call_log[k]) =>
              call_log[j] = call_log[i]

\* a timer-started cycle is in flight between two of its calls, after an
\* earlier cycle made calls of its own
C4_Witness ==
    /\ Cardinality(DOMAIN tasks) = 1
    /\ pc = "loaded"
    /\ ncycles >= 2
    /\ \E c \in DOMAIN tasks : Len(tasks[c].calls) >= 2
    /\ call_log[1] # call_log[Len(call_log)]

(***************************************************************************)
(* C5. Ready after the first refresh: the platforms are set up only when   *)
(* setup() returned True and the first refresh has completed.              *)
(***************************************************************************)
FirstRefreshCompleted == ncycles >= 1 /\ 1 \notin DOMAIN tasks

C5_ReadyAfterFirstRefresh ==
    platforms =>
        /\ setup_ret = "true"
        /\ FirstRefreshCompleted

\* the platforms are set up in the step that ends a first refresh of
\* several chunks
C5_Witness ==
    /\ platforms
    /\ last_cycle.first
    /\ Len(last_cycle.calls) >= 2
    /\ pc = "loaded"

(***************************************************************************)
(* C6. Setup aborts at the first bad id: getStationData is called for the  *)
(* configured ids in order; a reported failure at position k makes setup   *)
(* return False at once, with no call for a later id; setup returns True   *)
(* only when every configured id was resolved.                             *)
(***************************************************************************)
ReportedFailures == {"not_ok", "custom_exception"}

C6_SetupAbortsAtFirstBadId ==
    LET k == Len(station_calls)
    IN /\ k <= Len(selected_stations)
       /\ station_calls = SubSeq(selected_stations, 1, k)
       /\ \A i \in 1..(k - 1) : station_resps[i] = "ok"
       /\ (k > 0 /\ station_resps[k] \in ReportedFailures) =>
              setup_ret = "false"
       /\ setup_ret = "true" =>
              /\ k = Len(selected_stations)
              /\ \A i \in 1..k : station_resps[i] = "ok"

\* setup returned False at a bad id that has resolved ids before it and
\* unrequested ids after it
C6_Witness ==
    /\ setup_ret = "false"
    /\ Len(station_calls) >= 3
    /\ Len(station_calls) < Len(selected_stations)
    /\ Len(stations.order) >= 2

(***************************************************************************)
(* C7. Every setup failure caused by the provider is reported to the host  *)
(* as not ready (ConfigEntryNotReady), never as a permanent failure        *)
(* (async_setup_entry returning False).                                    *)
(***************************************************************************)
C7_SetupFailureIsNotReady ==
    (setup_ret \in {"false", "raised"} /\ pc # "setup") => pc = "not_ready"

(***************************************************************************)
(* C8. Duplicate insert: add_station of a record whose id is already a key *)
(* leaves the registry as it is (entry count, key order, the first record  *)
(* kept) and raises nothing, however often it is done.                     *)
(***************************************************************************)
C8_DuplicateInsertIdempotent ==
    [][(/\ pc = "setup"
        /\ Len(station_calls') = Len(station_calls) + 1
        /\ station_resps'[Len(station_resps')] = "ok"
        /\ station_calls'[Len(station_calls')] \in DOMAIN stations.rec)
       => (/\ stations' = stations
           /\ setup_ret' = "pending"
           /\ dup_warned' = dup_warned + 1)]_vars

\* the same id was inserted a second and a third time
C8_Witness ==
    /\ dup_warned >= 2
    /\ Len(stations.order) = 1
    /\ stations.rec[stations.order[1]].call = 1
    /\ setup_ret = "true"

(***************************************************************************)
(* C9. Over capacity is a warning: when every configured id resolves,      *)
(* setup returns True whatever the registry's size; the warning is logged  *)
(* exactly when the registry then holds more than 10 stations; every fresh *)
(* id is inserted, the 11th too.                                           *)
(***************************************************************************)
C9_OverCapacityIsWarning ==
    /\ cap_warned => setup_ret = "true"
    /\ setup_ret = "true" =>
          /\ cap_warned <=> Len(stations.order) > 10
          /\ Len(stations.order) = Cardinality(Range(selected_stations))
    /\ (/\ pc \notin {"start", "setup"}
        /\ Len(station_resps) = Len(selected_stations)
        /\ \A i \in 1..Len(station_resps) : station_resps[i] = "ok")
       => setup_ret = "true"

\* eleven stations: warned, and setup returned True
C9_Witness ==
    /\ setup_ret = "true"
    /\ Len(stations.order) = 11
    /\ cap_warned
    /\ pc # "setup"

(***************************************************************************)
(* C10. A cycle whose chunk calls all succeed makes the live snapshot      *)
(* exactly the union of the mappings its calls returned, the previous      *)
(* snapshot gone; when every requested id got a record the keys are the    *)
(* registry's ids; with no station the cycle succeeds with an empty        *)
(* snapshot.                                                               *)
(***************************************************************************)
C10_SuccessfulRefreshResult ==
    /\ LastCycleNoChunkFailed =>
          /\ data = [valid |-> TRUE, map |-> UnionOf(last_cycle.got)]
          /\ (\A i \in 1..Len(last_cycle.answers) :
                 last_cycle.answers[i] = "full")
             => DOMAIN data.map = Range(stations.order)
    /\ (ncycles >= 1 /\ stations.order = <<>>) =>
          /\ tasks = EmptyMap
          /\ last_cycle.outcome = "ok"
          /\ data = [valid |-> TRUE, map |-> EmptyMap]

\* a cycle of three successful calls replaced a snapshot that had a key the
\* new one has not
C10_Witness ==
    /\ LastCycleNoChunkFailed
    /\ Len(last_cycle.got) = 3
    /\ last_cycle.before.valid
    /\ DOMAIN last_cycle.before.map \ DOMAIN data.map # {}
    /\ Cardinality(DOMAIN data.map) >= 20

(***************************************************************************)
(* The specification under fairness: the update interval keeps elapsing    *)
(* while the entry is loaded, every getPriceList call is answered, and the *)
(* provider answers without failure from cycle MaxCycles on.  The runs    *)
(* start from configured lists that give registries of 0 to 3 chunks.      *)
(***************************************************************************)
ProviderAnswer(c, kind) ==
    /\ c = MaxCycles => kind \notin {"error", "no_prices"}
    /\ ChunkReturn(c, kind)

ProviderAnswers ==
    \E c \in 1..MaxCycles, kind \in PriceAnswers : ProviderAnswer(c, kind)

LiveNext ==
    \/ SetupEntryBegin
    \/ \E kind \in StationAnswers : SetupCall(kind)
    \/ SetupFinish
    \/ SetupEntryResume
    \/ Tick
    \/ ProviderAnswers
    \/ \E unload_ok \in BOOLEAN : Unload(unload_ok)

\* registries of 0, 1, 2 and 3 chunks
LiveConfigs ==
    {Iota(k) : k \in {0, 1, ChunkSize, ChunkSize + 1, 2 * ChunkSize + 1}}

LiveInit == Init /\ selected_stations \in LiveConfigs

LiveSpec ==
    /\ LiveInit
    /\ [][LiveNext]_vars
    /\ WF_vars(Tick)
    /\ WF_vars(ProviderAnswers)

(***************************************************************************)
(* C11. A failed refresh is not fatal: the step in which a timer-started   *)
(* cycle fails leaves the entry loaded; the first later cycle whose calls  *)
(* all succeed installs exactly its own snapshot, nothing of the failed    *)
(* cycle in it; and while the entry stays loaded a failed cycle is         *)
(* followed by such a fresh snapshot.                                      *)
(***************************************************************************)
FreshSnapshot ==
    /\ LastCycleNoChunkFailed
    /\ data = [valid |-> TRUE, map |-> UnionOf(last_cycle.got)]
    /\ \A x \in DOMAIN data.map : data.map[x] = last_cycle.id

C11_FailureNotFatalStep ==
    /\ (/\ last_cycle' # last_cycle
        /\ LastCycleChunkFailed'
        /\ ~last_cycle'.first)
       => (/\ pc' = pc
           /\ hass_data' = hass_data
           /\ platforms' = platforms
           /\ stations' = stations)
    /\ (/\ LastCycleChunkFailed
        /\ last_cycle' # last_cycle
        /\ LastCycleNoChunkFailed')
       => (/\ FreshSnapshot'
           /\ \A x \in DOMAIN data'.map : data'.map[x] # last_cycle.id)

C11_RefreshFailureNotFatal ==
    /\ [][C11_FailureNotFatalStep]_vars
    /\ (LastCycleChunkFailed /\ pc = "loaded")
          ~> (FreshSnapshot \/ pc = "unloaded")

\* the third cycle published its snapshot over the first cycle's: the
\* second cycle had failed
C11_Witness ==
    /\ FreshSnapshot
    /\ last_cycle.id = 3
    /\ data.map # EmptyMap
    /\ last_cycle.before.valid
    /\ last_cycle.before.map # EmptyMap
    /\ \A x \in DOMAIN last_cycle.before.map : last_cycle.before.map[x] = 1
    /\ pc = "loaded"

(***************************************************************************)
(* src/homeassistant/components/pi_hole/update.py                          *)
(*                                                                         *)
(* A value a property returns is None, a string, or an exception raised.   *)
(***************************************************************************)
NoneValue == [raised |-> FALSE, some |-> FALSE, val |-> ""]

Str(v) == [raised |-> FALSE, some |-> TRUE, val |-> v]

Raised == [raised |-> TRUE, some |-> FALSE, val |-> ""]

\* Python's truth value of a str | None
Truthy(v) == v.some /\ v.val # ""

\* versions.get(key)
dict_get(m, key) == IF key \in DOMAIN m THEN Str(m[key]) ELSE NoneValue

\* UPDATE_ENTITY_TYPES; the two lambdas of a description are
\* versions.get(current_key) and versions.get(latest_key)
UPDATE_ENTITY_TYPES ==
    <<[key |-> "core_update_available",
       current_key |-> "core_current",
       latest_key |-> "core_latest",
       release_base_url |-> "https://github.com/pi-hole/pi-hole/releases/tag"],
      [key |-> "web_update_available",
       current_key |-> "web_current",
       latest_key |-> "web_latest",
       release_base_url |-> "https://github.com/pi-hole/AdminLTE/releases/tag"],
      [key |-> "ftl_update_available",
       current_key |-> "FTL_current",
       latest_key |-> "FTL_latest",
       release_base_url |-> "https://github.com/pi-hole/FTL/releases/tag"]>>

\* faulty variant: no isinstance check, .get is looked up on any payload
current_version_unguarded(description, api_versions) ==
    IF api_versions.is_dict
    THEN dict_get(api_versions.map, description.current_key)
    ELSE Raised

\* PiHoleUpdateEntity.current_version
current_version(description, api_versions) ==
    IF api_versions.is_dict
    THEN dict_get(api_versions.map, description.current_key)
    ELSE NoneValue

\* PiHoleUpdateEntity.latest_version
latest_version(description, api_versions) ==
    IF api_versions.is_dict
    THEN dict_get(api_versions.map, description.latest_key)
    ELSE NoneValue

\* faulty variant: tests "is not None" where the code tests the truth value
release_url_not_none(description, api_versions) ==
    LET latest == latest_version(description, api_versions)
    IN IF latest.raised THEN Raised
       ELSE IF latest.some
       THEN Str(description.release_base_url \o "/" \o latest.val)
       ELSE NoneValue

\* PiHoleUpdateEntity.release_url
release_url(description, api_versions) ==
    LET latest == latest_version(description, api_versions)
    IN IF latest.raised THEN Raised
       ELSE IF Truthy(latest)
       THEN Str(description.release_base_url \o "/" \o latest.val)
       ELSE NoneValue

Properties == {"current_version", "latest_version", "release_url"}

Property(prop, description, api_versions) ==
    IF prop = "current_version" THEN current_version(description, api_versions)
    ELSE IF prop = "latest_version"
    THEN latest_version(description, api_versions)
    ELSE release_url(description, api_versions)

(***************************************************************************)
(* The payloads api.versions takes: no mapping, or a mapping that holds    *)
(* any of the six keys, a *_current key with a version, a *_latest key     *)
(* with a version or the empty string.                                     *)
(***************************************************************************)
CurrentKeys == {"core_current", "web_current", "FTL_current"}

LatestKeys == {"core_latest", "web_latest", "FTL_latest"}

Absent == "<absent>"

VersionMaps ==
    {[k \in {x \in CurrentKeys \cup LatestKeys : f[x] # Absent} |-> f[k]] :
        f \in {g \in [CurrentKeys \cup LatestKeys -> {Absent, "", "v5.18"}] :
                  \A k \in CurrentKeys : g[k] # ""}}

Payloads ==
    {NoVersions} \cup {[is_dict |-> TRUE, map |-> m] : m \in VersionMaps}

tank_vars ==
    <<selected_stations, pc, hass_data, setup_ret, station_calls,
      station_resps, stations, cap_warned, dup_warned, data, tasks, ncycles,
      last_cycle, call_log, platforms, unload_ret>>

\* the Hole client stores a new versions payload
VersionsUpdate(payload) ==
    /\ payload # versions
    /\ versions' = payload
    /\ reads' = <<>>
    /\ UNCHANGED tank_vars

\* the host reads one property of one of the three update entities
ReadProperty(i, prop) ==
    /\ Len(reads) < MaxReads
    /\ reads' =
          Append(reads,
                 [entity |-> i, prop |-> prop,
                  value |-> Property(prop, UPDATE_ENTITY_TYPES[i], versions)])
    /\ UNCHANGED versions
    /\ UNCHANGED tank_vars

PiInit == Init /\ selected_stations = <<>>

PiNext ==
    \/ \E payload \in Payloads : VersionsUpdate(payload)
    \/ \E i \in 1..Len(UPDATE_ENTITY_TYPES), prop \in Properties :
          ReadProperty(i, prop)

PiSpec == PiInit /\ [][PiNext]_vars

(***************************************************************************)
(* Notions the pi_hole properties are stated in: the three entities' keys  *)
(* and release pages, written out.                                         *)
(***************************************************************************)
Component == <<"core", "web", "FTL">>

ReleasePage ==
    <<"https://github.com/pi-hole/pi-hole/releases/tag",
      "https://github.com/pi-hole/AdminLTE/releases/tag",
      "https://github.com/pi-hole/FTL/releases/tag">>

\* the payload is a mapping that holds the key
Holds(key) == versions.is_dict /\ key \in DOMAIN versions.map

\* the latest version of entity i is absent or the empty string
LatestEmpty(i) ==
    Holds(Component[i] \o "_latest") =>
        versions.map[Component[i] \o "_latest"] = ""

IsEmpty(v) == ~v.raised /\ (~v.some \/ v.val = "")

ReadsOf(prop) == {k \in 1..Len(reads) : reads[k].prop = prop}

(***************************************************************************)
(* C12. Derived field: release_url is empty exactly when latest_version is *)
(* empty (absent key, no mapping, or the empty string); otherwise it is    *)
(* release_base_url + "/" + latest_version; it is computed from the        *)
(* payload at every read.                                                  *)
(***************************************************************************)
C12_DerivedFieldLaw ==
    /\ \A k \in ReadsOf("release_url") :
          LET r == reads[k]
          IN /\ ~r.value.raised
             /\ IsEmpty(r.value) <=> LatestEmpty(r.entity)
             /\ ~LatestEmpty(r.entity) =>
                   r.value =
                      Str(ReleasePage[r.entity] \o "/"
                          \o versions.map[Component[r.entity] \o "_latest"])
    /\ \A k \in ReadsOf("release_url"), j \in ReadsOf("latest_version") :
          reads[k].entity = reads[j].entity =>
              (IsEmpty(reads[k].value) <=> IsEmpty(reads[j].value))

\* with web_latest the empty string and core_latest a version, the web
\* entity's release_url read as None and the core entity's as a URL
C12_Witness ==
    /\ Holds("web_latest")
    /\ versions.map["web_latest"] = ""
    /\ Len(reads) = 2
    /\ reads[1] = [entity |-> 2, prop |-> "release_url", value |-> NoneValue]
    /\ reads[2] =
          [entity |-> 1, prop |-> "release_url",
           value |->
              Str("https://github.com/pi-hole/pi-hole/releases/tag/v5.18")]

(***************************************************************************)
(* C13. Projections never fail: current_version and latest_version of the *)
(* core, web and FTL entities return the payload's value under the         *)
(* entity's key when the payload is a mapping that holds it, and None      *)
(* otherwise, without raising; a read changes neither the payload nor any  *)
(* other read's result, so reads in any order agree.                       *)
(***************************************************************************)
Expected(i, suffix) ==
    IF Holds(Component[i] \o suffix)
    THEN Str(versions.map[Component[i] \o suffix])
    ELSE NoneValue

C13_ReadsAgree ==
    /\ \A k \in ReadsOf("current_version") :
          reads[k].value = Expected(reads[k].entity, "_current")
    /\ \A k \in ReadsOf("latest_version") :
          reads[k].value = Expected(reads[k].entity, "_latest")
    /\ \A k, j \in 1..Len(reads) :
          (reads[k].entity = reads[j].entity /\ reads[k].prop = reads[j].prop)
              => reads[k].value = reads[j].value

C13_ReadStep ==
    Len(reads') > Len(reads) =>
        /\ versions' = versions
        /\ SubSeq(reads', 1, Len(reads)) = reads

C13_ProjectionsNeverFail ==
    /\ []C13_ReadsAgree
    /\ [][C13_ReadStep]_vars

\* the payload is a mapping without core_current: the core entity's
\* current_version read as None, its latest_version as the payload's value
C13_Witness ==
    /\ versions.is_dict
    /\ "core_current" \notin DOMAIN versions.map
    /\ Holds("core_latest")
    /\ Len(reads) = 2
    /\ reads[1] =
          [entity |-> 1, prop |-> "current_version", value |-> NoneValue]
    /\ reads[2] =
          [entity |-> 1, prop |-> "latest_version",
           value |-> Str(versions.map["core_latest"])]

(***************************************************************************)
(* C14. Sequential calls, immediate abort: a cycle in flight has exactly   *)
(* one getPriceList call outstanding, issued after every earlier call of   *)
(* the cycle was answered with prices; a finished cycle made no call after *)
(* its first failed answer, and ended in UpdateFailed with the provider's  *)
(* message (ok=false) or "No prices in data" (no prices).                  *)
(***************************************************************************)
AllWithPrices(answers, n) ==
    \A i \in 1..n : answers[i] \in {"full", "partial"}

C14_SequentialFailFast ==
    /\ \A c \in DOMAIN tasks :
          /\ Len(tasks[c].calls) = Len(tasks[c].answers) + 1
          /\ AllWithPrices(tasks[c].answers, Len(tasks[c].answers))
    /\ last_cycle.id > 0 =>
          /\ Len(last_cycle.calls) = Len(last_cycle.answers)
          /\ AllWithPrices(last_cycle.answers, Len(last_cycle.answers) - 1)
    /\ LastCycleChunkFailed =>
          /\ last_cycle.outcome = "failed"
          /\ last_cycle.answers[Len(last_cycle.answers)] = "error"
                => last_cycle.message = "api error"
          /\ last_cycle.answers[Len(last_cycle.answers)] = "no_prices"
                => last_cycle.message = "No prices in data"

\* a cycle over three chunks ended at its second call, which was answered
\* without prices
C14_Witness ==
    /\ LastCycleChunkFailed
    /\ last_cycle.answers = <<"full", "no_prices">>
    /\ Len(last_cycle.calls) = 2
    /\ Len(last_cycle.station_ids) > 20
    /\ last_cycle.message = "No prices in data"

(***************************************************************************)
(* Notions the registry properties are stated in.                          *)
(***************************************************************************)
\* t, with x appended unless t already holds it
AppendNew(t, x) == IF x \in Range(t) THEN t ELSE Append(t, x)

\* the elements of s in the order of their first occurrence
RECURSIVE FirstOccurrences(_)
FirstOccurrences(s) ==
    IF s = <<>> THEN <<>>
    ELSE AppendNew(FirstOccurrences(SubSeq(s, 1, Len(s) - 1)), s[Len(s)])

\* the ids among the first n calls that getStationData resolved, in call order
RECURSIVE ResolvedUpTo(_)
ResolvedUpTo(n) ==
    IF n = 0 THEN <<>>
    ELSE IF station_resps[n] = "ok"
    THEN Append(ResolvedUpTo(n - 1), station_calls[n])
    ELSE ResolvedUpTo(n - 1)

ResolvedIds == ResolvedUpTo(Len(station_calls))

\* the position of the first occurrence of id in s
FirstIndex(s, id) == CHOOSE i \in 1..Len(s) :
    s[i] = id /\ \A j \in 1..(i - 1) : s[j] # id

(***************************************************************************)
(* C15. Registry invariant: every key maps to a record whose id is the     *)
(* key, no id occurs twice, and the keys stand in the order in which each  *)
(* id was first inserted; after setup that is the order of first           *)
(* occurrence in the configured list.                                      *)
(***************************************************************************)
C15_RegistryInvariant ==
    /\ DOMAIN stations.rec = Range(stations.order)
    /\ \A k \in DOMAIN stations.rec : stations.rec[k].id = k
    /\ \A i, j \in 1..Len(stations.order) :
          i # j => stations.order[i] # stations.order[j]
    /\ stations.order = FirstOccurrences(ResolvedIds)
    /\ setup_ret = "true" =>
          stations.order = FirstOccurrences(selected_stations)

\* the configured list 2, 1, 2 gave the registry 2, 1
C15_Witness ==
    /\ setup_ret = "true"
    /\ selected_stations = <<2, 1, 2>>
    /\ stations.order = <<2, 1>>
    /\ dup_warned = 1

(***************************************************************************)
(* C16. Refresh leaves the registry alone: no step of a refresh cycle,     *)
(* successful or failed, changes self.stations; only a step of setup that  *)
(* adds a station does, so the registry is fixed once setup has returned.  *)
(***************************************************************************)
RefreshStep ==
    \/ ncycles' # ncycles
    \/ tasks' # tasks
    \/ last_cycle' # last_cycle
    \/ data' # data
    \/ call_log' # call_log

C16_RefreshKeepsRegistryStep ==
    /\ RefreshStep => stations' = stations
    /\ setup_ret # "pending" => stations' = stations
    /\ stations' # stations =>
          /\ pc = "setup"
          /\ Len(station_calls') = Len(station_calls) + 1
          /\ station_resps'[Len(station_resps')] = "ok"

C16_RefreshKeepsRegistry == [][C16_RefreshKeepsRegistryStep]_vars

\* after a cycle that got prices for only some stations and a cycle that
\* failed, the registry still is what setup built
C16_Witness ==
    /\ ncycles >= 2
    /\ LastCycleChunkFailed
    /\ data.valid
    /\ DOMAIN data.map # Range(stations.order)
    /\ Len(stations.order) > 10
    /\ stations.order = FirstOccurrences(selected_stations)

(***************************************************************************)
(* C17. No rollback: when setup returns False at position k, the registry  *)
(* holds exactly the stations resolved for the ids before position k, each *)
(* once and as first resolved, and nothing that only position k or a later *)
(* one would have brought.                                                 *)
(***************************************************************************)
C17_NoRollbackOnFailedSetup ==
    setup_ret = "false" =>
        LET k == Len(station_calls)
            before == SubSeq(selected_stations, 1, k - 1)
        IN /\ k >= 1
           /\ station_resps[k] \in {"not_ok", "custom_exception"}
           /\ stations.order = FirstOccurrences(before)
           /\ DOMAIN stations.rec = Range(before)
           /\ \A id \in DOMAIN stations.rec :
                 stations.rec[id] =
                    [id |-> id, call |-> FirstIndex(before, id)]

\* setup failed at the third id of 1, 2, 1: stations 1 and 2 stay
C17_Witness ==
    /\ setup_ret = "false"
    /\ station_calls = <<1, 2, 1>>
    /\ stations.order = <<1, 2>>
    /\ pc = "failed"

(***************************************************************************)
(* C18. Registration: the coordinator is in hass.data[DOMAIN] from the     *)
(* start of async_setup_entry, before setup makes its first call, and      *)
(* stays there when setup fails (False or not ready); async_unload_entry   *)
(* removes it exactly when unloading the platforms succeeded.              *)
(***************************************************************************)
C18_RegistrationLifecycle ==
    /\ pc = "start" => ~hass_data
    /\ pc \in {"setup", "first_refresh", "loaded", "failed", "not_ready"}
          => hass_data
    /\ station_calls # <<>> => pc # "start"
    /\ pc = "unloaded" <=> unload_ret = "true"
    /\ pc = "unloaded" => ~hass_data
    /\ unload_ret = "false" => (pc = "loaded" /\ hass_data)

\* unloading the platforms failed and the coordinator is still registered
C18_Witness ==
    /\ unload_ret = "false"
    /\ pc = "loaded"
    /\ hass_data
    /\ ncycles >= 2

====
